---- MODULE Spec2Model ----
(***************************************************************************)
(* Model of src/repos/repos.py: one run of main() over a Repos object, the *)
(* forge listing it fetches and the workspace root it scans and mutates.   *)
(*                                                                         *)
(* A run is the sequence main() executes: Repos(...), get(), missing(),    *)
(* the public/private classification, print(public), print(private), the   *)
(* --clone loop, the --missing listing and delete().  The command line     *)
(* flags --clone, --missing, --delete and --yes are inputs of the run;     *)
(* each is drawn at the statement of main() that reads it and recorded in  *)
(* args.  --archived and the terminal's interactivity are read by the      *)
(* constructor and are drawn in Init.                                      *)
(*                                                                         *)
(* Not modelled: parse_args' exit on unknown arguments, the credentials    *)
(* check, and self.missing_repos, which the constructor sets to the empty  *)
(* list (active_repos is still empty) and nothing reads.  Directory names  *)
(* are single shell words, so "rm -rf {repo_folder}{repo}" removes the     *)
(* entry of that name and nothing else.                                    *)
(***************************************************************************)
EXTENDS Integers, Sequences, FiniteSets, TLC

(***************************************************************************)
(* Bounds and universes.                                                   *)
(***************************************************************************)
\* Largest number of repositories the forge returns.
MaxRepos == 2

\* GITHUB_USERNAME, and the login of some other owner (a collaborator repo).
u == "me"
OtherLogin == "other"

\* Directory names.  ".obsidian" is one of ignored_folders; "ghost" is not
\* the user's: the forge lists it, if at all, under another owner.
NamePool == <<"alpha", "beta", ".obsidian", "ghost">>
Names == {NamePool[i] : i \in DOMAIN NamePool}

ignored_folders == {".git", ".DS_Store", ".obsidian"}

\* State of root/name on disk: no entry, or a directory that Repo() opens
\* (clean, modified tracked files, untracked files), or an entry Repo()
\* raises on (not a working tree, corrupted metadata).
Absent == "absent"
Corrupt == "corrupt"
Openable == {"clean", "dirty", "untracked"}
Status == {Absent, Corrupt} \cup Openable

Visibility == {"public", "private"}

\* What the forge can return for a name (the fields of a PyGithub
\* Repository the program reads and that decide anything).
ForgeRecords(n) ==
    IF n = "ghost"
    THEN {[name |-> n, owner |-> OtherLogin, archived |-> FALSE, visibility |-> "public"]}
    ELSE IF n \in ignored_folders
    THEN {[name |-> n, owner |-> u, archived |-> a, visibility |-> "public"] : a \in BOOLEAN}
    ELSE {[name |-> n, owner |-> u, archived |-> a, visibility |-> v] :
             a \in BOOLEAN, v \in Visibility}

\* What can be on disk under a name when the run starts.  The status of
\* ".obsidian" and "ghost" is never read unless a clone created them, so a
\* pre-existing one is taken to be a plain directory.
InitialStatus(n) ==
    IF n \in {"alpha", "beta"} THEN Status ELSE {Absent, Corrupt}

Answers == {"y", "Y", "n"}

Unbound == "<unbound>"
NoFailure == "<none>"

VARIABLES
    repos,                  \* self.repos: the forge listing, in forge order
    include_archived,       \* self.include_archived
    interactive,            \* self.interactive
    active_repos,           \* self.active_repos: name -> record
    orphaned_repos,         \* self.orphaned_repos
    orphaned_repos_deleted, \* self.orphaned_repos_deleted
    fs,                     \* the workspace root: name -> Status
    args,                   \* the flags main() has read so far
    missing_repos,          \* main's missing_repos
    public,                 \* main's public
    private,                \* main's private
    clone_i,                \* calls of clone() made by main's loop
    out,                    \* lines printed, in order
    pc,                     \* position in main()
    exc,                    \* exception that ended the run, or "none"
    typed,                  \* history: what was typed at each delete prompt
    fs0,                    \* history: fs when the run started
    clone_ops,              \* history: name -> successful Repo.clone_from calls
    clone_tried,            \* history: names Repo.clone_from was called for
    clone_failed            \* history: names whose Repo.clone_from raised

vars == <<repos, include_archived, interactive, active_repos, orphaned_repos,
          orphaned_repos_deleted, fs, args, missing_repos, public, private,
          clone_i, out, pc, exc, typed, fs0, clone_ops, clone_tried,
          clone_failed>>

(***************************************************************************)
(* Helpers.                                                                *)
(***************************************************************************)
Range(s) == {s[i] : i \in DOMAIN s}

Line(tag, name) == [tag |-> tag, name |-> name]

\* Strictly increasing index sequences into NamePool, of length <= k: the
\* forge's listings up to renaming of "alpha" and "beta".
RECURSIVE Listings(_, _)
Listings(from, k) ==
    {<<>>} \cup
    (IF k = 0 THEN {}
     ELSE UNION {
            UNION { {<<r>> \o rest : rest \in Listings(i + 1, k - 1)} :
                    r \in ForgeRecords(NamePool[i]) } :
            i \in from..Len(NamePool) })

\* os.path.exists(f"{repo_folder}{repo}")
exists(f, repo) == f[repo] # Absent

\* os.listdir(repo_folder)
listdir(f) == {n \in Names : f[n] # Absent}

\* Repo(path) raises for a path that is not a working tree.
OpenFails(f, repo) == f[repo] = Corrupt

\* Repo.untracked_files / Repo.is_dirty() of an opened working tree.
untracked_files(f, repo) == f[repo] = "untracked"
is_dirty(f, repo) == f[repo] = "dirty"

\* str.lower() on the answers the model feeds input().
lower(c) == IF c = "Y" THEN "y" ELSE c

\* The keys of self.active_repos in dict (insertion) order.
RECURSIVE KeySeq(_, _)
KeySeq(listing, ar) ==
    IF listing = <<>> THEN <<>>
    ELSE (IF Head(listing).name \in DOMAIN ar /\ Head(listing).owner = u
          THEN <<Head(listing).name>> ELSE <<>>) \o KeySeq(Tail(listing), ar)


(***************************************************************************)
(* Repos: the methods, as functions of the object's fields and the disk.   *)
(***************************************************************************)
\* Repos.get: one record per listed repo whose owner is the user.
get(listing) ==
    LET owned == {i \in DOMAIN listing : listing[i].owner = u}
        idx(n) == CHOOSE i \in owned : listing[i].name = n
    IN  [n \in {listing[i].name : i \in owned} |->
            [archived   |-> listing[idx(n)].archived,
             orphaned   |-> FALSE,
             visibility |-> listing[idx(n)].visibility]]

\* Variant of missing without the archived test of lines 102-104: C1 must
\* notice it.
RECURSIVE missing_without_archived_test(_, _, _)
missing_without_archived_test(keys, ar, f) ==
    IF keys = <<>> THEN <<>>
    ELSE LET repo == Head(keys)
         IN  (IF ~exists(f, repo) THEN <<repo>> ELSE <<>>)
             \o (IF ar[repo].orphaned /\ exists(f, repo) THEN <<repo>> ELSE <<>>)
             \o missing_without_archived_test(Tail(keys), ar, f)

\* Repos.missing: the list it returns for active_repos = ar (keys in dict
\* order) and the disk f.
RECURSIVE missing(_, _, _)
missing(keys, ar, f) ==
    IF keys = <<>> THEN <<>>
    ELSE LET repo == Head(keys)
             here ==
                 IF ~include_archived /\ ar[repo].archived THEN <<>>
                 ELSE (IF ~exists(f, repo) THEN <<repo>> ELSE <<>>)
                      \o (IF ar[repo].orphaned /\ exists(f, repo)
                          THEN <<repo>> ELSE <<>>)
         IN  here \o missing(Tail(keys), ar, f)

\* What repositories.missing() returns if it is called in the current state.
missing_now == missing(KeySeq(repos, active_repos), active_repos, fs)

\* Repos.print: the loop from position i of the list, with current_repo
\* bound to the working tree opened for name cur (Unbound before the first
\* successful Repo()).  Yields the records, the lines and the exception.
RECURSIVE print(_, _, _, _, _)
print(list, i, cur, ar, o) ==
    IF i > Len(list) THEN [ar |-> ar, out |-> o, exc |-> "none"]
    ELSE LET repo == list[i] IN
         IF exists(fs, repo)
         THEN LET failed == OpenFails(fs, repo)
                  ar2  == IF failed
                          THEN [ar EXCEPT ![repo].orphaned = TRUE]
                          ELSE ar
                  cur2 == IF failed THEN cur ELSE repo
              IN  IF cur2 = Unbound
                  THEN [ar |-> ar2, out |-> o, exc |-> "UnboundLocalError"]
                  ELSE LET tag ==
                               IF untracked_files(fs, cur2) THEN "untracked files"
                               ELSE IF is_dirty(fs, cur2) THEN "dirty"
                               ELSE IF ar2[repo].orphaned THEN "orphaned"
                               ELSE IF ar2[repo].archived THEN "archived"
                               ELSE "clean"
                       IN  print(list, i + 1, cur2, ar2, Append(o, Line(tag, repo)))
         ELSE print(list, i + 1, cur, ar, Append(o, Line("archived not cloned", repo)))

\* Variant of CloneNeeded without the os.path.exists test: C5 must notice it.
CloneNeeded_without_exists_test(f, repo) == TRUE

\* Whether clone calls Repo.clone_from for the name.
CloneNeeded(f, repo) == ~exists(f, repo)

\* Repos.clone: the loop from position i of the list; Repo.clone_from raises
\* for the name bad (NoFailure: for none).  Yields the disk, the lines, the
\* exception and the history of clone_from calls.
RECURSIVE clone(_, _, _, _, _)
clone(list, i, bad, ar, st) ==
    IF i > Len(list) THEN st
    ELSE LET repo == list[i] IN
         IF ~include_archived /\ ar[repo].archived
         THEN clone(list, i + 1, bad, ar, st)
         ELSE LET o == Append(st.out, Line("Cloning", repo)) IN
              IF CloneNeeded(st.fs, repo)
              THEN IF repo = bad
                   THEN [st EXCEPT !.out = o, !.exc = "GitCommandError",
                                   !.tried = @ \cup {repo},
                                   !.failed = @ \cup {repo}]
                   ELSE clone(list, i + 1, bad, ar,
                              [st EXCEPT !.out = o,
                                         !.fs[repo] = "clean",
                                         !.tried = @ \cup {repo},
                                         !.ops[repo] = @ + 1])
              ELSE clone(list, i + 1, bad, ar, [st EXCEPT !.out = o])

\* Repos.delete, first part: the names os.listdir contributes, in pool order.
RECURSIVE ListedOrphans(_, _, _)
ListedOrphans(i, ar, f) ==
    IF i > Len(NamePool) THEN <<>>
    ELSE (IF NamePool[i] \in listdir(f)
             /\ NamePool[i] \notin ignored_folders
             /\ NamePool[i] \notin DOMAIN ar
          THEN <<NamePool[i]>> ELSE <<>>) \o ListedOrphans(i + 1, ar, f)

\* Repos.delete, second part: the archived records whose directory exists.
RECURSIVE ArchivedOrphans(_, _, _)
ArchivedOrphans(keys, ar, f) ==
    IF keys = <<>> THEN <<>>
    ELSE (IF ~include_archived /\ ar[Head(keys)].archived /\ exists(f, Head(keys))
          THEN <<Head(keys)>> ELSE <<>>) \o ArchivedOrphans(Tail(keys), ar, f)

\* Variant of NoPrompt that forgets the non-interactive case: C3 must
\* notice it.
NoPrompt_only_with_yes(ignore_prompt) == ignore_prompt

\* Whether delete removes without asking.
NoPrompt(ignore_prompt) == ignore_prompt \/ ~interactive

\* Whether the answer typed at a prompt confirms the removal.
Confirms(choice) == lower(choice) = "y"

\* Repos.delete, the loop over self.orphaned_repos from position i; answer
\* is what the user types at each name's prompt.
RECURSIVE delete(_, _, _, _, _)
delete(list, i, ignore_prompt, answer, st) ==
    IF i > Len(list) THEN st
    ELSE LET repo == list[i] IN
         IF NoPrompt(ignore_prompt)
         THEN delete(list, i + 1, ignore_prompt, answer,
                     [st EXCEPT !.fs[repo] = Absent, !.deleted = @ + 1])
         ELSE LET o == Append(st.out, Line("Press 'y' to delete", repo)) IN
              IF Confirms(answer[repo])
              THEN delete(list, i + 1, ignore_prompt, answer,
                          [st EXCEPT !.out = o, !.fs[repo] = Absent,
                                     !.deleted = @ + 1])
              ELSE delete(list, i + 1, ignore_prompt, answer,
                          [st EXCEPT !.out = o])


(***************************************************************************)
(* main(): the state after Repos(include_archived, interactive), then one  *)
(* action per statement of the run.                                        *)
(***************************************************************************)
Flags == {"clone", "missing", "delete", "yes"}

\* A flag main() has not read yet, and the two values it can have.
Unread == "unread"
On == "on"
Off == "off"

Init ==
    /\ repos \in Listings(1, MaxRepos)
    /\ include_archived \in BOOLEAN
    /\ interactive \in BOOLEAN
    /\ fs \in {f \in [Names -> Status] : \A n \in Names : f[n] \in InitialStatus(n)}
    /\ fs0 = fs
    /\ active_repos = <<>>
    /\ orphaned_repos = <<>>
    /\ orphaned_repos_deleted = 0
    /\ args = [f \in Flags |-> Unread]
    /\ missing_repos = <<>>
    /\ public = <<>>
    /\ private = <<>>
    /\ clone_i = 0
    /\ out = <<>>
    /\ pc = "get"
    /\ exc = "none"
    /\ typed = <<>>
    /\ clone_ops = [n \in Names |-> 0]
    /\ clone_tried = {}
    /\ clone_failed = {}

\* all_repos = repositories.get()
Get ==
    /\ pc = "get"
    /\ active_repos' = get(repos)
    /\ pc' = "missing"
    /\ UNCHANGED <<repos, include_archived, interactive, orphaned_repos,
                   orphaned_repos_deleted, fs, args, missing_repos, public,
                   private, clone_i, out, exc, typed, fs0, clone_ops,
                   clone_tried, clone_failed>>

\* missing_repos = repositories.missing()
Missing ==
    /\ pc = "missing"
    /\ missing_repos' = missing_now
    /\ pc' = "classify"
    /\ UNCHANGED <<repos, include_archived, interactive, active_repos,
                   orphaned_repos, orphaned_repos_deleted, fs, args, public,
                   private, clone_i, out, exc, typed, fs0, clone_ops,
                   clone_tried, clone_failed>>

\* The names main() appends to public (v = "public") or private.
RECURSIVE classify(_, _, _)
classify(keys, ar, v) ==
    IF keys = <<>> THEN <<>>
    ELSE LET repo == Head(keys)
             isPublic == ar[repo].visibility = "public"
             here ==
                 IF repo \in ignored_folders THEN <<>>
                 ELSE IF isPublic # (v = "public") THEN <<>>
                 ELSE IF ~include_archived /\ ar[repo].archived THEN <<>>
                 ELSE <<repo>>
         IN  here \o classify(Tail(keys), ar, v)

\* if all_repos: ... the loop that fills public and private;
\* else: print("No repos found.")
Classify ==
    /\ pc = "classify"
    /\ IF DOMAIN active_repos # {}
       THEN /\ public' = classify(KeySeq(repos, active_repos), active_repos, "public")
            /\ private' = classify(KeySeq(repos, active_repos), active_repos, "private")
            /\ pc' = "print_public"
            /\ out' = out
       ELSE /\ out' = Append(out, Line("No repos found.", ""))
            /\ pc' = "done"
            /\ UNCHANGED <<public, private>>
    /\ UNCHANGED <<repos, include_archived, interactive, active_repos,
                   orphaned_repos, orphaned_repos_deleted, fs, args,
                   missing_repos, clone_i, exc, typed, fs0, clone_ops, clone_tried,
                   clone_failed>>

\* if public: print heading; repositories.print(public)
\* if private: print heading; repositories.print(private)
PrintStep(here, list, heading, next) ==
    /\ pc = here
    /\ IF list # <<>>
       THEN LET r == print(list, 1, Unbound, active_repos,
                           Append(out, Line(heading, "")))
            IN  /\ active_repos' = r.ar
                /\ out' = r.out
                /\ exc' = r.exc
                /\ pc' = IF r.exc = "none" THEN next ELSE "aborted"
       ELSE /\ pc' = next
            /\ UNCHANGED <<active_repos, out, exc>>
    /\ UNCHANGED <<repos, include_archived, interactive, orphaned_repos,
                   orphaned_repos_deleted, fs, args, missing_repos, public,
                   private, clone_i, typed, fs0, clone_ops, clone_tried,
                   clone_failed>>

PrintPublic == PrintStep("print_public", public, "Public repos", "print_private")

PrintPrivate == PrintStep("print_private", private, "Private repos", "clone")

\* Variant of CloneRequested that clones whatever the flag: C9 must notice it.
CloneRequested_always(flag) == TRUE

\* if args.clone:
CloneRequested(flag) == flag = On

\* if args.delete:
DeleteRequested(flag) == flag = On

\* if args.clone: if missing_repos: (the loop) else: print(...)
CloneBranch ==
    /\ pc = "clone"
    /\ \E flag \in {On, Off} :
         /\ args' = [args EXCEPT !["clone"] = flag]
         /\ IF CloneRequested(flag) /\ missing_repos # <<>>
            THEN /\ pc' = "clone_call"
                 /\ out' = out
            ELSE /\ pc' = "listing"
                 /\ out' = IF CloneRequested(flag)
                           THEN Append(out, Line("No missing repos to clone.", ""))
                           ELSE out
    /\ UNCHANGED <<repos, include_archived, interactive, active_repos,
                   orphaned_repos, orphaned_repos_deleted, fs, missing_repos,
                   public, private, clone_i, exc, typed, fs0, clone_ops, clone_tried,
                   clone_failed>>

\* for repo in missing_repos: repositories.clone(missing_repos)
\* One iteration: one call of clone on the whole list.
CloneCall ==
    /\ pc = "clone_call"
    /\ \E bad \in Range(missing_repos) \cup {NoFailure} :
         LET r == clone(missing_repos, 1, bad, active_repos,
                        [fs |-> fs, out |-> out, exc |-> "none",
                         ops |-> clone_ops, tried |-> clone_tried,
                         failed |-> clone_failed])
         IN  /\ fs' = r.fs
             /\ out' = r.out
             /\ exc' = r.exc
             /\ clone_ops' = r.ops
             /\ clone_tried' = r.tried
             /\ clone_failed' = r.failed
             /\ clone_i' = clone_i + 1
             /\ pc' = IF r.exc # "none" THEN "aborted"
                      ELSE IF clone_i + 1 = Len(missing_repos) THEN "listing"
                      ELSE "clone_call"
    /\ UNCHANGED <<repos, include_archived, interactive, active_repos,
                   orphaned_repos, orphaned_repos_deleted, args, missing_repos,
                   public, private, typed, fs0>>

\* The lines of the --missing listing.
RECURSIVE MissingLines(_)
MissingLines(list) ==
    IF list = <<>> THEN <<>>
    ELSE <<Line("missing", Head(list))>> \o MissingLines(Tail(list))

\* if args.missing: ...
Listing ==
    /\ pc = "listing"
    /\ \E flag \in {On, Off} :
         /\ args' = [args EXCEPT !["missing"] = flag]
         /\ out' = IF flag = Off THEN out
                   ELSE IF missing_repos # <<>>
                   THEN out \o <<Line("Missing repos:", "")>>
                            \o MissingLines(missing_repos)
                   ELSE Append(out, Line("No missing repos.", ""))
    /\ pc' = "delete"
    /\ UNCHANGED <<repos, include_archived, interactive, active_repos,
                   orphaned_repos, orphaned_repos_deleted, fs, missing_repos,
                   public, private, clone_i, exc, typed, fs0, clone_ops, clone_tried,
                   clone_failed>>

\* self.orphaned_repos after the two loops that open Repos.delete.
orphaned_now ==
    orphaned_repos \o ListedOrphans(1, active_repos, fs)
                   \o ArchivedOrphans(KeySeq(repos, active_repos), active_repos, fs)

\* What the user may type during delete: an answer at the prompt of each
\* name when delete prompts, nothing when it does not.
Typed(list, ignore_prompt) ==
    IF NoPrompt(ignore_prompt)
    THEN {<<>>}
    ELSE [Range(list) -> Answers]

\* if args.delete: repositories.delete(args.yes)
Delete ==
    /\ pc = "delete"
    /\ \E flag \in {On, Off} :
         IF ~DeleteRequested(flag)
         THEN /\ args' = [args EXCEPT !["delete"] = flag]
              /\ UNCHANGED <<orphaned_repos, orphaned_repos_deleted, fs, out,
                             typed>>
         ELSE \E yes \in {On, Off} :
              \E answer \in Typed(orphaned_now, yes = On) :
                LET r == delete(orphaned_now, 1, yes = On, answer,
                                [fs |-> fs, out |-> out,
                                 deleted |-> orphaned_repos_deleted])
                IN  /\ args' = [args EXCEPT !["delete"] = flag, !["yes"] = yes]
                    /\ orphaned_repos' = orphaned_now
                    /\ typed' = IF NoPrompt(yes = On) THEN typed ELSE answer
                    /\ orphaned_repos_deleted' = r.deleted
                    /\ fs' = r.fs
                    /\ out' = Append(r.out,
                                 Line(IF orphaned_now # <<>>
                                      THEN "Deleted orphaned repos."
                                      ELSE "No orphaned repos found.", ""))
    /\ pc' = "done"
    /\ UNCHANGED <<repos, include_archived, interactive, active_repos,
                   missing_repos, public, private, clone_i, exc, fs0,
                   clone_ops, clone_tried, clone_failed>>

Next ==
    \/ Get
    \/ Missing
    \/ Classify
    \/ PrintPublic
    \/ PrintPrivate
    \/ CloneBranch
    \/ CloneCall
    \/ Listing
    \/ Delete

Spec == Init /\ [][Next]_vars


(***************************************************************************)
(* Properties.                                                             *)
(***************************************************************************)
\* The status tags Repos.print gives an entry that exists on disk.
PrintTags == {"untracked files", "dirty", "orphaned", "archived", "clean"}

\* Lines of out printed by the step being taken.
NewLines == {i \in DOMAIN out' : i > Len(out)}

\* The names Repos.clone calls Repo.clone_from for unless the directory exists.
Eligible(n) == include_archived \/ ~active_repos[n].archived

\* The delete step of a run given --delete.
DeleteRuns == pc = "delete" /\ args'["delete"] = On

\* C1: the missing set, both as main() holds it and as Repos.missing would
\* return it in the current state, shares no name with the orphaned set
\* Repos.delete has built, at every point of the run.
C1_MissingOrphanedDisjoint ==
    /\ Range(missing_now) \cap Range(orphaned_repos) = {}
    /\ Range(missing_repos) \cap Range(orphaned_repos) = {}

\* C1 witness: delete has built a non-empty orphaned set, and missing() would
\* return a name that print flagged as orphaned.
C1_Witness ==
    /\ pc = "done"
    /\ orphaned_repos # <<>>
    /\ \E n \in Range(missing_now) : active_repos[n].orphaned

\* C2: the orphaned set delete builds is exactly the local names (the entries
\* of the root outside ignored_folders) that are no inventory key or are an
\* archived key with archived repos excluded; no ignored entry and no
\* non-archived inventory key is put in the set or removed.
C2_OrphanedSetExact ==
    [][DeleteRuns =>
        LET local == listdir(fs) \ ignored_folders
            kept(n) == \/ n \in ignored_folders
                       \/ n \in DOMAIN active_repos /\ ~active_repos[n].archived
        IN  /\ Range(orphaned_repos') =
                 {n \in local : \/ n \notin DOMAIN active_repos
                                \/ active_repos[n].archived /\ ~include_archived}
            /\ \A n \in Names : kept(n) =>
                 /\ n \notin Range(orphaned_repos')
                 /\ exists(fs, n) => exists(fs', n)]_vars

\* C3: without a terminal, or with --yes, delete prompts for nothing and
\* removes every orphaned name; on a terminal without --yes it prompts once
\* for each orphaned name and removes exactly those answered 'y' or 'Y'.
C3_ConfirmPolicy ==
    [][DeleteRuns =>
        LET set == Range(orphaned_repos')
            prompts == {i \in NewLines : out'[i].tag = "Press 'y' to delete"}
        IN  IF args'["yes"] = On \/ ~interactive
            THEN /\ prompts = {}
                 /\ \A n \in set : ~exists(fs', n)
            ELSE /\ {out'[i].name : i \in prompts} = set
                 /\ Cardinality(prompts) = Cardinality(set)
                 /\ \A n \in set :
                      ~exists(fs', n) <=> typed'[n] \in {"y", "Y"}]_vars

\* C3 witness: an interactive delete without --yes where one orphaned name
\* was confirmed with 'Y' and removed and another was declined and kept.
C3_Witness ==
    /\ pc = "done" /\ args["delete"] = On /\ args["yes"] = Off /\ interactive
    /\ \E n, m \in Range(orphaned_repos) :
         /\ typed[n] = "Y" /\ ~exists(fs, n)
         /\ typed[m] = "n" /\ exists(fs, m)

\* The automation case of C3 is reached too: no terminal, no --yes, and a
\* non-empty orphaned set removed without a prompt.
C3_AutoWitness ==
    /\ pc = "done" /\ args["delete"] = On /\ args["yes"] = Off /\ ~interactive
    /\ orphaned_repos # <<>>

\* C4: Repos.missing returns exactly the inventory keys that are not
\* excluded as archived and have no directory under the root, in whatever
\* state of the run it is called.
C4_MissingExact ==
    Range(missing_now) =
        {n \in DOMAIN active_repos : Eligible(n) /\ ~exists(fs, n)}

\* C5: a call of clone leaves every existing directory as it is and performs
\* no clone for it; every call of main's loop after the first clones nothing;
\* no name is cloned twice, and when the loop ends every missing name has
\* been cloned exactly once.
C5_CloneIdempotent ==
    [][/\ pc = "clone_call" =>
            \A n \in Names : exists(fs, n) =>
                fs'[n] = fs[n] /\ clone_ops'[n] = clone_ops[n]
       /\ pc = "clone_call" /\ clone_i >= 1 =>
            fs' = fs /\ clone_ops' = clone_ops /\ clone_tried' = clone_tried
       /\ \A n \in Names : clone_ops'[n] <= 1
       /\ pc = "clone_call" /\ pc' = "listing" =>
            \A n \in Range(missing_repos) :
                clone_ops'[n] = 1 /\ exists(fs', n)]_vars

\* C5 witness: the loop over two missing names has ended after two calls of
\* clone, each name cloned once.
C5_Witness ==
    /\ pc = "listing" /\ clone_i = 2
    /\ \A n \in Range(missing_repos) : clone_ops[n] = 1

\* C6: when a clone fails the run is not aborted, and every name of the
\* missing set that is eligible for cloning has been attempted.
C6_CloneFailureIsolated ==
    clone_failed # {} =>
        /\ pc # "aborted"
        /\ \A n \in Range(missing_repos) : Eligible(n) => n \in clone_tried

\* C7: print raises nothing, reports an entry that exists but cannot be
\* opened as orphaned only, and emits a line for every name of its list.
C7_PrintSurvivesCorrupt ==
    /\ exc # "UnboundLocalError"
    /\ \A i \in DOMAIN out :
         out[i].tag \in PrintTags /\ fs0[out[i].name] = Corrupt
            => out[i].tag = "orphaned"
    /\ pc \notin {"get", "missing", "classify", "print_public"} =>
         \A n \in Range(public) : \E i \in DOMAIN out : out[i].name = n
    /\ pc \notin {"get", "missing", "classify", "print_public", "print_private"} =>
         \A n \in Range(private) : \E i \in DOMAIN out : out[i].name = n

\* C8: a non-archived inventory key whose directory exists but does not open
\* is in the set delete acts on once --delete has run, is not returned by
\* Repos.missing while the directory is there, and is not handed to clone.
C8_OpenFailedOrphanedNotMissing ==
    \A n \in DOMAIN active_repos :
        ~active_repos[n].archived /\ fs0[n] = Corrupt =>
            /\ pc = "done" /\ args["delete"] = On => n \in Range(orphaned_repos)
            /\ exists(fs, n) => n \notin Range(missing_now)
            /\ n \notin Range(missing_repos)
            /\ n \notin clone_tried

\* C9: without --clone nothing is created under the root, without --delete
\* nothing is removed, and with neither the root's entries are those the run
\* started with.
C9_MutatorsOnlyOnRequest ==
    /\ args["clone"] # On =>
         \A n \in Names : ~exists(fs0, n) => ~exists(fs, n)
    /\ args["delete"] # On =>
         \A n \in Names : exists(fs0, n) => exists(fs, n)
    /\ args["clone"] # On /\ args["delete"] # On => listdir(fs) = listdir(fs0)

\* C9 witness: a finished run without --clone and --delete that had a
\* missing repository to clone and an orphaned directory to delete.
C9_Witness ==
    /\ pc = "done" /\ args["clone"] = Off /\ args["delete"] = Off
    /\ args["missing"] = On
    /\ missing_repos # <<>>
    /\ orphaned_now # <<>>

\* C10: every name printed under "Missing repos:" is an inventory key with
\* no directory under the root when its line is printed.
C10_ListedMissingIsMissing ==
    [][\A i \in NewLines : out'[i].tag = "missing" =>
          /\ out'[i].name \in DOMAIN active_repos
          /\ ~exists(fs, out'[i].name)]_vars

====
